---- MODULE Spec2Model ----
(***************************************************************************)
(* State-machine model of desietc.etc.ETC (src/desietc/etc.py): the        *)
(* per-exposure pipeline process_acquisition -> set_guide_stars ->         *)
(* process_guide_frame, with preprocess_gfa as the shared helper.          *)
(*                                                                         *)
(* Encoding of Python values:                                              *)
(*   None is <<>> and a value v that may be None is <<v>>;                 *)
(*   an instance attribute that has not been assigned yet is <<>> and an   *)
(*   assigned one is <<v>> (for gfa_mjd_obs / gfa_exptime, whose assigned  *)
(*   value may itself be None, the assigned value is << <<>> >> or         *)
(*   << <<n>> >>);                                                         *)
(*   a dict is a function on its key set; the dicts keyed by camera are    *)
(*   always filled in the order of GFA.guide_names, so iterating them in   *)
(*   that order is iterating them in insertion order;                      *)
(*   pixel coordinates are integers in quarter pixels (Pixel == 4).        *)
(***************************************************************************)
EXTENDS Integers, Sequences, FiniteSets, TLC

-----------------------------------------------------------------------------
(* Bounds of the model. *)

\* number of guide cameras in GFA.guide_names
NumCameras == 2
\* longest guide star catalog passed to set_guide_stars
MaxStars == 2
\* largest (odd) postage stamp size the session may be constructed with
MaxPsfPixels == 3
\* amplifier sizes of the camera: the frame is 2*nampx by 2*nampy
nampx == 3
nampy == 2
\* the guide frame counter is not advanced beyond this
MaxFrames == 2

-----------------------------------------------------------------------------
(* Program constants. *)

\* 0.5 pixel in quarter pixels (the PlateMaker convention offset)
Half == 2
\* first valid MJD-OBS (1-1-2019)
MinMJD == 58484
\* default CCD temperature of preprocess_gfa
default_ccdtemp == 10
\* maxgauss of the acquisition fit
maxgauss == 3
\* defaults of the constructor
max_dither == 7
num_dither == 1200
\* zeropoint 27.06 in hundredths of a magnitude
zeropoint == 2706
fiber_diam_um == 107
pixel_size_um == 15

Pixel == 2 * Half

None == <<>>
Some(v) == <<v>>

\* GFA.guide_names: the guide cameras, in the order the loops visit them
\* (the first NumCameras of the instrument's guide cameras)
GFA_names == <<"GUIDE0", "GUIDE2", "GUIDE3", "GUIDE5", "GUIDE7", "GUIDE8">>
guide_names == SubSeq(GFA_names, 1, NumCameras)

Cameras == {guide_names[i] : i \in 1..Len(guide_names)}

\* names bound at module level by the import statements
ModuleGlobals == {"time", "pathlib", "logging", "np", "fitsio", "desietc"}

\* looking up a global name that no statement binds raises NameError
NameDefined(name, locals) == name \in ModuleGlobals \cup locals

VARIABLES
    psf_pixels,           \* self.psf_pixels
    xydither,             \* self.xdither, self.ydither
    acquisition_results,  \* self.acquisition_results: None or dict camera -> result
    guide_stars,          \* self.guide_stars: None or dict camera -> list of stars
    num_guide_frames,     \* self.num_guide_frames (attribute absent until acquisition)
    night,                \* self.night (attribute absent until acquisition)
    expid,                \* self.expid (attribute absent until acquisition)
    gfa_mjd_obs,          \* self.gfa_mjd_obs (attribute absent until preprocess_gfa)
    gfa_exptime,          \* self.gfa_exptime (attribute absent until preprocess_gfa)
    GFA,                  \* self.GFA: the raw frame loaded in the camera processor
    lastOp,               \* the entry point called last
    ret,                  \* what that call returned, or the exception it raised
    fitted,               \* the <<camera, star index>> whose fit ran in that call
    registered,           \* a set_guide_stars returned True since the last acquisition
    call                  \* the argument of that call, where the client logs it

vars == <<psf_pixels, xydither, acquisition_results, guide_stars,
          num_guide_frames, night, expid, gfa_mjd_obs, gfa_exptime, GFA,
          lastOp, ret, fitted, registered, call>>

\* the pipeline state a caller can observe through the ETC object
pipeline == <<acquisition_results, guide_stars, num_guide_frames, night, expid>>

-----------------------------------------------------------------------------
(* ETC.__init__ *)

\* desietc.util.diskgrid(num_dither, max_dither, alpha=2), kept symbolic
diskgrid(n, r, alpha) == [num |-> n, max |-> r, alpha |-> alpha]

\* the stamp sizes the constructor accepts (it raises ValueError on an even one)
StampSizes == {p \in 1..MaxPsfPixels : p % 2 # 0}

\* the largest of them
LargestStamp == CHOOSE p \in StampSizes : \A q \in StampSizes : q <= p

\* the state after ETC(sky_calib, gfa_calib, psf_pixels) for a size in sizes
Constructed(sizes) ==
    /\ psf_pixels \in sizes
    /\ xydither = diskgrid(num_dither, max_dither, 2)
    /\ acquisition_results = None
    /\ guide_stars = None
    /\ num_guide_frames = <<>>
    /\ night = <<>>
    /\ expid = <<>>
    /\ gfa_mjd_obs = <<>>
    /\ gfa_exptime = <<>>
    /\ GFA = <<>>
    /\ lastOp = "__init__"
    /\ ret = "None"
    /\ fitted = {}
    /\ registered = FALSE
    /\ call = None

Init == Constructed(StampSizes)

-----------------------------------------------------------------------------
(* ETC.preprocess_gfa *)

\* hdr.get(key, None)
HdrGet(hdr, key) == IF key \in DOMAIN hdr THEN Some(hdr[key]) ELSE None

\* The state preprocess_gfa works on: the two attributes it assigns and the
\* camera processor.  ok is its return value.
Preprocessed(ok, mjd, exptime, gfa) ==
    [ok |-> ok, gfa_mjd_obs |-> mjd, gfa_exptime |-> exptime, GFA |-> gfa]

\* GFA.setraw(data['data'], name=camera) raises ValueError on a malformed raw
\* array; otherwise the processor holds the bias-corrected frame.
setraw_raises(raw) == ~raw.valid

\* preprocess_gfa with the raw data loaded before EXPTIME is checked
preprocess_gfa_load_first(camera, data, exptime0, gfa0) ==
    LET hdr == data.header
        mjd == HdrGet(hdr, "MJD-OBS")
        exptime == HdrGet(hdr, "EXPTIME")
        temp == HdrGet(hdr, "GCCDTEMP")
        ccdtemp == IF temp = None THEN default_ccdtemp ELSE temp[1]
        loaded == IF setraw_raises(data.data) THEN gfa0
                  ELSE Some([name |-> camera, raw |-> data.data,
                             dark |-> <<ccdtemp, exptime>>])
    IN  IF mjd = None \/ mjd[1] < MinMJD
        THEN Preprocessed(FALSE, Some(mjd), exptime0, gfa0)
        ELSE IF exptime = None \/ exptime[1] <= 0
        THEN Preprocessed(FALSE, Some(mjd), Some(exptime), loaded)
        ELSE IF setraw_raises(data.data)
        THEN Preprocessed(FALSE, Some(mjd), Some(exptime), gfa0)
        ELSE Preprocessed(TRUE, Some(mjd), Some(exptime),
                Some([name |-> camera, raw |-> data.data,
                      dark |-> <<ccdtemp, exptime[1]>>]))

\* preprocess_gfa(camera, data) started with exposure-time attribute exptime0
\* and camera processor gfa0.
preprocess_gfa(camera, data, exptime0, gfa0) ==
    LET hdr == data.header
        mjd == HdrGet(hdr, "MJD-OBS")
        exptime == HdrGet(hdr, "EXPTIME")
        temp == HdrGet(hdr, "GCCDTEMP")
        ccdtemp == IF temp = None THEN default_ccdtemp ELSE temp[1]
    IN  IF mjd = None \/ mjd[1] < MinMJD
        THEN Preprocessed(FALSE, Some(mjd), exptime0, gfa0)
        ELSE IF exptime = None \/ exptime[1] <= 0
        THEN Preprocessed(FALSE, Some(mjd), Some(exptime), gfa0)
        ELSE IF setraw_raises(data.data)
        THEN Preprocessed(FALSE, Some(mjd), Some(exptime), gfa0)
        ELSE Preprocessed(TRUE, Some(mjd), Some(exptime),
                Some([name |-> camera, raw |-> data.data,
                      dark |-> <<ccdtemp, exptime[1]>>]))

-----------------------------------------------------------------------------
(* ETC.process_acquisition *)

\* GFA.get_psfs() then GFA.psf_stack: the stacked PSF-like objects of the
\* loaded frame, (None, None) when none is found.
psf_stack(gfa) ==
    IF gfa.raw.psfs
    THEN <<Some([kind |-> "data", of |-> gfa]), Some([kind |-> "ivar", of |-> gfa])>>
    ELSE <<None, None>>

\* T[S, S] with S = slice(ntrim, ntrim + psf_pixels)
Trim(T, size) == [kind |-> T.kind, of |-> T.of, size |-> size]

\* GMM.fit(T, WT, maxgauss): the fitted parameters, or None when the fit fails
\* (the parameters are named after the stamp they were fitted to)
GMM_fit(T, WT, k) ==
    IF T.of.raw.fit /\ WT.of = T.of
    THEN Some([psf_of |-> <<T.of.name, T.of.raw.img>>, size |-> T.size,
               maxgauss |-> k])
    ELSE None

\* GMM.predict(gmm_params)
GMM_predict(params) == [model_of |-> params]

\* GMM.dither(gmm_params, xdither, ydither)
GMM_dither(params, offsets) == [dither_of |-> params, offsets |-> offsets]

\* The state the camera loop of process_acquisition works on.
AcqState(results, mjd, exptime, gfa) ==
    [results |-> results, gfa_mjd_obs |-> mjd, gfa_exptime |-> exptime, GFA |-> gfa]

\* dict d with d[key] = value assigned
DictSet(d, key, value) ==
    [k \in DOMAIN d \cup {key} |-> IF k = key THEN value ELSE d[k]]

\* the iteration with the renderings of the camera's previous entry kept
AcqCamera_stale_dither(camera, data, st) ==
    IF camera \notin DOMAIN data THEN st
    ELSE
    LET pre == preprocess_gfa(camera, data[camera], st.gfa_exptime, st.GFA)
        skip == AcqState(st.results, pre.gfa_mjd_obs, pre.gfa_exptime, pre.GFA)
    IN  IF ~pre.ok THEN skip
        ELSE
        LET stack == psf_stack(pre.GFA[1])
        IN  IF stack[1] = None THEN skip
            ELSE
            LET T == Trim(stack[1][1], psf_pixels)
                WT == Trim(stack[2][1], psf_pixels)
                saved == [data |-> T, ivar |-> WT]
                gmm_params == GMM_fit(T, WT, maxgauss)
                kept == /\ acquisition_results # None
                        /\ camera \in DOMAIN acquisition_results[1]
                        /\ "dithered" \in DOMAIN acquisition_results[1][camera]
                full == [data |-> T, ivar |-> WT, gmm |-> gmm_params[1],
                         model |-> GMM_predict(gmm_params[1]),
                         dithered |-> IF kept
                                      THEN acquisition_results[1][camera].dithered
                                      ELSE GMM_dither(gmm_params[1], xydither)]
            IN  AcqState(DictSet(st.results, camera,
                                 IF gmm_params = None THEN saved ELSE full),
                         pre.gfa_mjd_obs, pre.gfa_exptime, pre.GFA)

\* One iteration of the loop over GFA.guide_names (lines 68-101).
AcqCamera(camera, data, st) ==
    IF camera \notin DOMAIN data THEN st
    ELSE
    LET pre == preprocess_gfa(camera, data[camera], st.gfa_exptime, st.GFA)
        skip == AcqState(st.results, pre.gfa_mjd_obs, pre.gfa_exptime, pre.GFA)
    IN  IF ~pre.ok THEN skip
        ELSE
        LET stack == psf_stack(pre.GFA[1])
        IN  IF stack[1] = None THEN skip
            ELSE
            LET T == Trim(stack[1][1], psf_pixels)
                WT == Trim(stack[2][1], psf_pixels)
                saved == [data |-> T, ivar |-> WT]
                gmm_params == GMM_fit(T, WT, maxgauss)
                full == [data |-> T, ivar |-> WT, gmm |-> gmm_params[1],
                         model |-> GMM_predict(gmm_params[1]),
                         dithered |-> GMM_dither(gmm_params[1], xydither)]
            IN  AcqState(DictSet(st.results, camera,
                                 IF gmm_params = None THEN saved ELSE full),
                         pre.gfa_mjd_obs, pre.gfa_exptime, pre.GFA)

\* the loop with break in place of continue at a camera without image
RECURSIVE AcqLoop_break(_, _, _)
AcqLoop_break(i, data, st) ==
    IF i > Len(guide_names) \/ guide_names[i] \notin DOMAIN data THEN st
    ELSE AcqLoop_break(i + 1, data, AcqCamera(guide_names[i], data, st))

RECURSIVE AcqLoop(_, _, _)
AcqLoop(i, data, st) ==
    IF i > Len(guide_names) THEN st
    ELSE AcqLoop(i + 1, data, AcqCamera(guide_names[i], data, st))

\* the empty dict
EmptyDict == [k \in {} |-> None]

\* the reset without line 106
ResetExposure_keep_stars ==
    /\ num_guide_frames' = Some(0)
    /\ UNCHANGED guide_stars

\* "Reset the guide frame counter and guide star data." (lines 105-106)
ResetExposure ==
    /\ num_guide_frames' = Some(0)
    /\ guide_stars' = None

process_acquisition(data) ==
    LET hdr == data.header
        st == AcqLoop(1, data, AcqState(EmptyDict, gfa_mjd_obs, gfa_exptime, GFA))
    IN  /\ night' = Some(hdr.NIGHT)
        /\ expid' = Some(hdr.EXPID)
        /\ acquisition_results' = Some(st.results)
        /\ gfa_mjd_obs' = st.gfa_mjd_obs
        /\ gfa_exptime' = st.gfa_exptime
        /\ GFA' = st.GFA
        /\ ResetExposure
        /\ registered' = FALSE
        /\ fitted' = {}
        /\ lastOp' = "process_acquisition"
        /\ ret' = "None"
        /\ UNCHANGED <<psf_pixels, xydither>>

-----------------------------------------------------------------------------
(* ETC.set_guide_stars *)

\* truncation in place of rounding
np_round_floor(v) == v \div Pixel

\* np.round(v).astype(int) of v quarter pixels: the nearest pixel, a tie going
\* to the even one
np_round(v) ==
    LET q == v \div Pixel
        r == v % Pixel
    IN  IF 2 * r < Pixel THEN q
        ELSE IF 2 * r > Pixel THEN q + 1
        ELSE IF q % 2 = 0 THEN q ELSE q + 1

\* 250 * log10 of 10 ** (-(mag - zeropoint) / 2.5), mag in magnitudes and
\* zeropoint in hundredths
nelec(m) == zeropoint - 100 * m

\* desietc.util.make_template(size, profile, dx, dy, normalized), kept symbolic;
\* the profile is the disk of squared radius (0.5 * diam / pixel) ** 2
make_template(size, diam, pixel, dx, dy, normalized) ==
    [size |-> size, diam |-> diam, pixel |-> pixel, dx |-> dx, dy |-> dy,
     normalized |-> normalized]

\* the selection without the magnitude cut
IsSelected_any_mag(entry, camera) == entry.gfa_loc = camera

\* sel[i] for sel = (gfa_loc == camera) & (mag > 0)
IsSelected(entry, camera) == entry.gfa_loc = camera /\ entry.mag > 0

\* np.where(sel)[0]
Selected(catalog, camera) ==
    SelectSeq([i \in 1..Len(catalog) |-> i],
              LAMBDA i : IsSelected(catalog[i], camera))

\* the frame size used by the border test (line 126)
ny == 2 * nampx
nx == 2 * nampy

\* the border test without the upper x bound
TooCloseToBorder_no_xhi(ylo, yhi, xlo, xhi) == ylo < 0 \/ yhi > ny \/ xlo < 0

\* the border test of a stamp (line 147)
TooCloseToBorder(ylo, yhi, xlo, xhi) == ylo < 0 \/ yhi > ny \/ xlo < 0 \/ xhi > nx

\* The body of the loop over the selected stars (lines 137-158) for catalog
\* entry i: None when the stamp is too close to the border, else the star.
MakeStar(catalog, sel, i, size) ==
    LET halfsize == size \div 2
        x0 == catalog[i].col - Half
        y0 == catalog[i].row - Half
        rmag == catalog[i].mag
        nelec_rate == [k \in 1..Len(sel) |-> nelec(catalog[sel[k]].mag)]
        iy == np_round(y0)
        ix == np_round(x0)
        ylo == iy - halfsize
        yhi == iy + halfsize + 1
        xlo == ix - halfsize
        xhi == ix + halfsize + 1
        fiber_dx == x0 - Pixel * ix
        fiber_dy == y0 - Pixel * iy
    IN  IF TooCloseToBorder(ylo, yhi, xlo, xhi) THEN None
        ELSE Some([x0 |-> x0, y0 |-> y0, rmag |-> rmag, nelec_rate |-> nelec_rate,
                   fiber_dx |-> fiber_dx, fiber_dy |-> fiber_dy,
                   yslice |-> <<ylo, yhi>>, xslice |-> <<xlo, xhi>>,
                   fiber |-> make_template(size, fiber_diam_um, pixel_size_um,
                                           fiber_dx, fiber_dy, FALSE)])

RECURSIVE StarLoop(_, _, _, _, _)
StarLoop(k, catalog, sel, size, stars) ==
    IF k > Len(sel) THEN stars
    ELSE LET star == MakeStar(catalog, sel, sel[k], size)
         IN  StarLoop(k + 1, catalog, sel, size,
                      IF star = None THEN stars ELSE Append(stars, star[1]))

\* One iteration of the loop over GFA.guide_names (lines 127-161).
StarsCamera(camera, catalog, size, registry) ==
    LET sel == Selected(catalog, camera)
        stars == StarLoop(1, catalog, sel, size, <<>>)
    IN  IF Len(sel) = 0 THEN registry
        ELSE IF Len(stars) > 0 THEN DictSet(registry, camera, stars)
        ELSE registry

RECURSIVE StarsLoop(_, _, _, _)
StarsLoop(i, catalog, size, registry) ==
    IF i > Len(guide_names) THEN registry
    ELSE StarsLoop(i + 1, catalog, size,
                   StarsCamera(guide_names[i], catalog, size, registry))

\* set_guide_stars with line 124 moved above the acquisition check
set_guide_stars_early_clear(catalog) ==
    /\ lastOp' = "set_guide_stars"
    /\ fitted' = {}
    /\ IF acquisition_results = None
       THEN /\ ret' = "False"
            /\ guide_stars' = Some(EmptyDict)
            /\ UNCHANGED registered
       ELSE LET registry == StarsLoop(1, catalog, psf_pixels, EmptyDict)
            IN  /\ guide_stars' = Some(registry)
                /\ ret' = IF DOMAIN registry = {} THEN "False" ELSE "True"
                /\ registered' = (registered \/ DOMAIN registry # {})
    /\ UNCHANGED <<psf_pixels, xydither, acquisition_results, num_guide_frames,
                   night, expid, gfa_mjd_obs, gfa_exptime, GFA>>

\* catalog[i] is (gfa_loc[i], col[i], row[i], mag[i])
set_guide_stars(catalog) ==
    /\ lastOp' = "set_guide_stars"
    /\ fitted' = {}
    /\ IF acquisition_results = None
       THEN /\ ret' = "False"
            /\ UNCHANGED <<guide_stars, registered>>
       ELSE LET registry == StarsLoop(1, catalog, psf_pixels, EmptyDict)
            IN  /\ guide_stars' = Some(registry)
                /\ ret' = IF DOMAIN registry = {} THEN "False" ELSE "True"
                /\ registered' = (registered \/ DOMAIN registry # {})
    /\ UNCHANGED <<psf_pixels, xydither, acquisition_results, num_guide_frames,
                   night, expid, gfa_mjd_obs, gfa_exptime, GFA>>

-----------------------------------------------------------------------------
(* ETC.process_guide_frame *)

\* the local names bound when the body of the star loop runs
FitLocals == {"self", "data", "start", "fnum", "hdr", "camera", "acquisition",
              "psf", "star", "D", "DW"}

\* The state the camera loop of process_guide_frame works on: exc is the
\* exception that ended it ("" while none was raised).
GuideState(exc, mjd, exptime, gfa, fits) ==
    [exc |-> exc, gfa_mjd_obs |-> mjd, gfa_exptime |-> exptime, GFA |-> gfa,
     fitted |-> fits]

\* The body of the loop over the stars of one camera (lines 203-216) for the
\* k-th star: the exception it raises, "" when the fit runs.
FitStar(camera, k) ==
    IF ~NameDefined("GFA", FitLocals) THEN "NameError"
    ELSE IF "dithered" \notin DOMAIN acquisition_results[1][camera] THEN "KeyError"
    ELSE IF ~NameDefined("WD", FitLocals) THEN "NameError"
    ELSE ""

RECURSIVE FitLoop(_, _, _)
FitLoop(camera, k, st) ==
    IF k > Len(guide_stars[1][camera]) THEN st
    ELSE LET exc == FitStar(camera, k)
         IN  IF exc # ""
             THEN GuideState(exc, st.gfa_mjd_obs, st.gfa_exptime, st.GFA, st.fitted)
             ELSE FitLoop(camera, k + 1,
                          GuideState("", st.gfa_mjd_obs, st.gfa_exptime, st.GFA,
                                     st.fitted \cup {<<camera, k>>}))

\* One iteration of the loop over acquisition_results.items() (lines 189-216).
GuideCamera(camera, data, st) ==
    IF camera \notin DOMAIN guide_stars[1]
    THEN IF NameDefined("loggining", FitLocals) THEN st
         ELSE GuideState("NameError", st.gfa_mjd_obs, st.gfa_exptime, st.GFA,
                         st.fitted)
    ELSE IF camera \notin DOMAIN data THEN st
    ELSE LET pre == preprocess_gfa(camera, data[camera], st.gfa_exptime, st.GFA)
             loaded == GuideState("", pre.gfa_mjd_obs, pre.gfa_exptime, pre.GFA,
                                  st.fitted)
         IN  IF ~pre.ok THEN loaded
             ELSE FitLoop(camera, 1, loaded)

RECURSIVE GuideLoop(_, _, _)
GuideLoop(i, data, st) ==
    IF i > Len(guide_names) \/ st.exc # "" THEN st
    ELSE GuideLoop(i + 1, data,
                   IF guide_names[i] \in DOMAIN acquisition_results[1]
                   THEN GuideCamera(guide_names[i], data, st)
                   ELSE st)

process_guide_frame(data) ==
    /\ num_guide_frames # Some(MaxFrames)
    /\ lastOp' = "process_guide_frame"
    /\ UNCHANGED <<psf_pixels, xydither, acquisition_results, guide_stars,
                   night, expid, registered>>
    /\ IF num_guide_frames = <<>>
       THEN /\ ret' = "AttributeError"
            /\ fitted' = {}
            /\ UNCHANGED <<num_guide_frames, gfa_mjd_obs, gfa_exptime, GFA>>
       ELSE IF acquisition_results = None \/ guide_stars = None
       THEN /\ ret' = "False"
            /\ fitted' = {}
            /\ UNCHANGED <<num_guide_frames, gfa_mjd_obs, gfa_exptime, GFA>>
       ELSE LET st == GuideLoop(1, data,
                                GuideState("", gfa_mjd_obs, gfa_exptime, GFA, {}))
            IN  /\ gfa_mjd_obs' = st.gfa_mjd_obs
                /\ gfa_exptime' = st.gfa_exptime
                /\ GFA' = st.GFA
                /\ fitted' = st.fitted
                /\ IF st.exc # ""
                   THEN /\ ret' = st.exc
                        /\ UNCHANGED num_guide_frames
                   ELSE /\ ret' = "True"
                        /\ num_guide_frames' = Some(num_guide_frames[1] + 1)

-----------------------------------------------------------------------------
(* The calls a client can make. *)

\* The client calls an entry point with one of the given arguments, and logs
\* the argument when log is set.
Acquire(payloads, log) ==
    \E data \in payloads :
        /\ process_acquisition(data)
        /\ call' = IF log THEN Some(data) ELSE None
Register(catalogs, log) ==
    \E catalog \in catalogs :
        /\ set_guide_stars(catalog)
        /\ call' = IF log THEN Some(catalog) ELSE None
Guide(payloads, log) ==
    \E data \in payloads :
        /\ process_guide_frame(data)
        /\ call' = IF log THEN Some(data) ELSE None

\* a direct call of the helper on one camera image
Preprocess(images, log) ==
    \E camera \in Cameras, data \in images :
        LET pre == preprocess_gfa(camera, data, gfa_exptime, GFA)
        IN  /\ gfa_mjd_obs' = pre.gfa_mjd_obs
            /\ gfa_exptime' = pre.gfa_exptime
            /\ GFA' = pre.GFA
            /\ lastOp' = "preprocess_gfa"
            /\ ret' = IF pre.ok THEN "True" ELSE "False"
            /\ fitted' = {}
            /\ call' = IF log THEN Some(<<camera, data>>) ELSE None
            /\ UNCHANGED <<psf_pixels, xydither, acquisition_results, guide_stars,
                           num_guide_frames, night, expid, registered>>

\* data['header'] of an acquisition or guide frame payload: two exposures of
\* different nights
FirstHeader == [NIGHT |-> 20201103, EXPID |-> 1]
OtherHeader == [NIGHT |-> 20201104, EXPID |-> 2]
Headers == {FirstHeader, OtherHeader}

\* the header of a camera image that preprocess_gfa accepts
GoodHeader == [k \in {"MJD-OBS", "EXPTIME", "GCCDTEMP"} |->
                 IF k = "MJD-OBS" THEN MinMJD ELSE IF k = "EXPTIME" THEN 5 ELSE 11]
\* and one it rejects
BadExptime == [GoodHeader EXCEPT !["EXPTIME"] = 0]

\* a raw image of exposure e: img names the exposure the image was taken in,
\* valid whether setraw accepts it, psfs whether get_psfs finds PSF-like
\* objects in it, fit whether the Gaussian mixture fit of their stack converges
Raw(e, valid, psfs, fit) == [img |-> e, valid |-> valid, psfs |-> psfs, fit |-> fit]

Image(hdr, raw) == [header |-> hdr, data |-> raw]

\* the payloads with header hdr in which any subset of the cameras has an
\* image, drawn from images
PayloadsOf(hdr, images) ==
    UNION { { [k \in cams \cup {"header"} |-> IF k = "header" THEN hdr ELSE f[k]] :
              f \in [cams -> images] } : cams \in SUBSET Cameras }

\* a catalog entry: a guide camera or another GFA, a position in quarter
\* pixels and a magnitude
Entry(loc, col, row, mag) == [gfa_loc |-> loc, col |-> col, row |-> row, mag |-> mag]
MidCol == (Pixel * nx) \div 2
MidRow == (Pixel * ny) \div 2 + Half

RECURSIVE SeqsUpTo(_, _)
SeqsUpTo(S, n) ==
    IF n = 0 THEN {<<>>}
    ELSE LET shorter == SeqsUpTo(S, n - 1)
         IN  shorter \cup {Append(q, e) : q \in shorter, e \in S}

-----------------------------------------------------------------------------
(* The exposure lifecycle: any order of the three entry points.  Every      *)
(* camera image is good, its PSF fit converges or not; a catalog has a      *)
(* mid-frame star on each camera of some set, or one star on the border.    *)

AcqImages(e) ==
    { Image(GoodHeader, Raw(e, TRUE, TRUE, TRUE)),
      Image(GoodHeader, Raw(e, TRUE, TRUE, FALSE)) }
GuideImages(e) == { Image(GoodHeader, Raw(e, TRUE, TRUE, TRUE)) }

AcqPayloads == UNION { PayloadsOf(hdr, AcqImages(hdr.EXPID)) : hdr \in Headers }
GuidePayloads == UNION { PayloadsOf(hdr, GuideImages(hdr.EXPID)) : hdr \in Headers }

\* the catalog with a mid-frame star on each of the cameras cams
MidFrameStars(cams) ==
    LET names == SelectSeq(guide_names, LAMBDA c : c \in cams)
    IN  [i \in 1..Len(names) |-> Entry(names[i], MidCol, MidRow, 18)]

Catalogs ==
    { MidFrameStars(cams) : cams \in SUBSET Cameras }
    \cup { <<Entry(guide_names[1], Pixel * nx, MidRow, 18)>> }

Next ==
    \/ Acquire(AcqPayloads, FALSE)
    \/ Register(Catalogs, FALSE)
    \/ Guide(GuidePayloads, FALSE)

Spec == Constructed({LargestStamp}) /\ [][Next]_vars

-----------------------------------------------------------------------------
(* Acquisitions with failing cameras: an image may lack PSF-like objects,   *)
(* carry a bad EXPTIME or be refused by setraw.  The client logs the        *)
(* acquisition payloads.                                                    *)

HeaderOnly(hdr) == [k \in {"header"} |-> hdr]

AcqFailureImages(e) ==
    { Image(GoodHeader, Raw(e, TRUE, TRUE, TRUE)),
      Image(GoodHeader, Raw(e, TRUE, FALSE, FALSE)),
      Image(BadExptime, Raw(e, TRUE, TRUE, TRUE)),
      Image(GoodHeader, Raw(e, FALSE, TRUE, TRUE)) }

AcqFailurePayloads ==
    UNION { PayloadsOf(hdr, AcqFailureImages(hdr.EXPID)) : hdr \in Headers }

OneStarCatalogs == { <<Entry(guide_names[1], MidCol, MidRow, 18)>> }

NextAcq ==
    \/ Acquire(AcqFailurePayloads, TRUE)
    \/ Register(OneStarCatalogs, FALSE)
    \/ Guide({HeaderOnly(FirstHeader)}, FALSE)

SpecAcq == Constructed({LargestStamp}) /\ [][NextAcq]_vars

-----------------------------------------------------------------------------
(* Registrations of catalogs whose first star lies on the first camera,     *)
(* anywhere along the two axes through mid-frame and up to one pixel beyond *)
(* the frame, for every stamp size.  The client logs the catalogs.          *)

AxisPositions ==
    { <<col, MidRow>> : col \in 0..(Pixel * (nx + 1)) }
    \cup { <<MidCol, row>> : row \in 0..(Pixel * (ny + 1)) }

FirstEntries ==
    { Entry(guide_names[1], pos[1], pos[2], 18) : pos \in AxisPositions }
    \cup { Entry(guide_names[1], MidCol, MidRow, 0),
           Entry(guide_names[1], MidCol, MidRow, -1),
           Entry("FOCUS1", MidCol, MidRow, 18) }

MoreEntries ==
    { Entry(guide_names[Len(guide_names)], MidCol - 1, MidRow + 1, 17),
      Entry(guide_names[1], Pixel * nx, MidRow, 17) }

StarCatalogs ==
    {<<>>} \cup { <<first>> \o more : first \in FirstEntries,
                                     more \in SeqsUpTo(MoreEntries, MaxStars - 1) }

AllCamerasGood(hdr) ==
    [k \in Cameras \cup {"header"} |->
        IF k = "header" THEN hdr
        ELSE Image(GoodHeader, Raw(hdr.EXPID, TRUE, TRUE, TRUE))]

NextStars ==
    \/ Acquire({AllCamerasGood(FirstHeader)}, FALSE)
    \/ Register(StarCatalogs, TRUE)
    \/ Guide({HeaderOnly(FirstHeader)}, FALSE)

SpecStars == Init /\ [][NextStars]_vars

-----------------------------------------------------------------------------
(* Guide frames with failing cameras: an image may carry a bad EXPTIME or   *)
(* be refused by setraw.  The acquisition has every camera good, or the PSF *)
(* fit of the first camera fails.  The client logs the guide frame payloads.*)

FirstFitFails(hdr) ==
    [k \in Cameras \cup {"header"} |->
        IF k = "header" THEN hdr
        ELSE Image(GoodHeader, Raw(hdr.EXPID, TRUE, TRUE, k # guide_names[1]))]

GuideFailureImages(e) ==
    { Image(GoodHeader, Raw(e, TRUE, TRUE, TRUE)),
      Image(BadExptime, Raw(e, TRUE, TRUE, TRUE)),
      Image(GoodHeader, Raw(e, FALSE, TRUE, TRUE)) }

GuideFailurePayloads ==
    PayloadsOf(FirstHeader, GuideFailureImages(FirstHeader.EXPID))
    \cup { AllCamerasGood(OtherHeader) }

NextGuide ==
    \/ Acquire({AllCamerasGood(FirstHeader), FirstFitFails(FirstHeader)}, FALSE)
    \/ Register(Catalogs, FALSE)
    \/ Guide(GuideFailurePayloads, TRUE)

SpecGuide == Constructed({LargestStamp}) /\ [][NextGuide]_vars

-----------------------------------------------------------------------------
(* Direct calls of preprocess_gfa on camera images whose header has each of  *)
(* MJD-OBS, EXPTIME and GCCDTEMP missing or present, MJD-OBS before or at    *)
(* the first valid day, EXPTIME zero, negative or positive, and raw data     *)
(* that setraw accepts or refuses.  The client logs camera and image.        *)

\* the header with the given fields; a field that is None is missing
HeaderOf(mjd, exptime, temp) ==
    LET field(k) == IF k = "MJD-OBS" THEN mjd
                    ELSE IF k = "EXPTIME" THEN exptime ELSE temp
    IN  [k \in {j \in {"MJD-OBS", "EXPTIME", "GCCDTEMP"} : field(j) # None}
            |-> field(k)[1]]

PreHeaders ==
    { HeaderOf(mjd, exptime, temp) :
        mjd \in {None, Some(MinMJD - 1), Some(MinMJD)},
        exptime \in {None, Some(-1), Some(0), Some(5)},
        temp \in {None, Some(11)} }

PreImages ==
    { Image(hdr, Raw(FirstHeader.EXPID, valid, TRUE, TRUE)) :
        hdr \in PreHeaders, valid \in BOOLEAN }

NextPre == Preprocess(PreImages, TRUE)

SpecPre == Constructed({LargestStamp}) /\ [][NextPre]_vars

-----------------------------------------------------------------------------
(* Properties of the exposure lifecycle. *)

\* the ways a call reports that it did not do its work
Exceptions == {"AttributeError", "NameError", "KeyError"}
Rejections == {"False"} \cup Exceptions

\* a registration that holds at least one star
HasStars(stars) == stars # None /\ stars # Some(EmptyDict)

\* some camera of the acquisition results has a fitted PSF model
HasPsfModel ==
    /\ acquisition_results # None
    /\ \E c \in DOMAIN acquisition_results[1] : "gmm" \in DOMAIN acquisition_results[1][c]

\* C1: process_guide_frame returns True only if an acquisition has completed
\* and a set_guide_stars has registered stars since that acquisition; called
\* before an acquisition or before star registration it returns False.
C1_GuideFrameNeedsAcquisitionAndStars ==
    lastOp = "process_guide_frame" =>
        /\ ret = "True" => acquisition_results # None /\ registered
        /\ (acquisition_results = None \/ guide_stars = None) => ret = "False"

\* C2: after any process_acquisition the acquisition results hold only entries
\* made from that call's images, guide_stars is None and the guide frame
\* counter is 0, and from then on no guide frame is accepted until a
\* set_guide_stars has succeeded.
C2_AcquisitionResetsExposure ==
    /\ lastOp = "process_acquisition" =>
        /\ guide_stars = None
        /\ num_guide_frames = Some(0)
        /\ \A c \in DOMAIN acquisition_results[1] :
              acquisition_results[1][c].data.of.raw.img = expid[1]
    /\ (lastOp = "process_guide_frame" /\ acquisition_results # None /\ ~registered)
          => ret # "True"

\* C3: a set_guide_stars called before any acquisition, and a
\* process_guide_frame called before an acquisition or before a star
\* registration, reports a failure (False or an exception) and leaves the
\* acquisition results, guide stars, guide frame counter and night/expid as
\* they were.
C3_OutOfSequenceKeepsState ==
    [][ ( \/ lastOp' = "set_guide_stars" /\ acquisition_results = None
          \/ lastOp' = "process_guide_frame"
               /\ (acquisition_results = None \/ guide_stars = None) )
        => (ret' \in Rejections /\ pipeline' = pipeline) ]_vars

\* C3 witness: a guide frame was rejected after an acquisition, before any
\* star registration
W3_FrameRejectedBeforeStars ==
    /\ lastOp = "process_guide_frame"
    /\ ret = "False"
    /\ acquisition_results # None
    /\ DOMAIN acquisition_results[1] # {}
    /\ guide_stars = None

\* C8: after a process_acquisition in which no camera obtained a PSF model,
\* set_guide_stars returns False and no guide frame is accepted.
C8_AcquiredNeedsPsfModel ==
    (acquisition_results # None /\ ~HasPsfModel) =>
        /\ lastOp = "set_guide_stars" => ret = "False"
        /\ lastOp = "process_guide_frame" => ret # "True"

\* C9: a set_guide_stars that finds no usable star returns False, and a
\* process_guide_frame that follows it returns False.
C9_NoUsableStarNotRegistered ==
    guide_stars = Some(EmptyDict) =>
        /\ lastOp = "set_guide_stars" => ret = "False"
        /\ lastOp = "process_guide_frame" => ret = "False"

\* C10 as claimed: once stars are registered, no operation but
\* process_acquisition changes the registration.
C10_StarsImmutableUntilAcquisition ==
    [][ (HasStars(guide_stars) /\ lastOp' # "process_acquisition")
        => guide_stars' = guide_stars ]_vars

\* C10 amended: once stars are registered, process_guide_frame never changes
\* the registration; only a further set_guide_stars (which overwrites it) or a
\* process_acquisition (which sets it to None) does.
C10_StarsChangeOnlyByRegistration ==
    [][ HasStars(guide_stars) =>
          /\ lastOp' = "process_guide_frame" => guide_stars' = guide_stars
          /\ lastOp' = "process_acquisition" => guide_stars' = None
          /\ lastOp' = "set_guide_stars" => guide_stars' # None ]_vars

\* C10 witness: a guide frame was accepted with stars registered
W10_FrameAcceptedWithStars ==
    /\ lastOp = "process_guide_frame"
    /\ ret = "True"
    /\ HasStars(guide_stars)
    /\ num_guide_frames = Some(MaxFrames)

\* the pipeline is guiding: a guide frame was accepted in this exposure
Guiding == num_guide_frames # <<>> /\ num_guide_frames[1] > 0

\* C13: a process_guide_frame returns True and advances the counter from 0
\* only if it fitted at least one star, and once the counter is positive it
\* stays positive until the next process_acquisition.
C13_GuidingNeedsFittedStar ==
    [][ /\ (/\ lastOp' = "process_guide_frame"
            /\ num_guide_frames = Some(0)
            /\ (ret' = "True" \/ num_guide_frames' # Some(0)))
           => fitted' # {}
        /\ (Guiding /\ lastOp' # "process_acquisition") => Guiding' ]_vars

\* every dither bank of the acquisition results is the rendering of the PSF
\* model stored next to it, at the session's dither offsets
DitherBanksCurrent ==
    acquisition_results # None =>
        \A c \in DOMAIN acquisition_results[1] :
            LET entry == acquisition_results[1][c]
            IN  "dithered" \in DOMAIN entry =>
                    /\ "gmm" \in DOMAIN entry
                    /\ entry.dithered = GMM_dither(entry.gmm, xydither)
                    /\ entry.gmm.psf_of = <<c, expid[1]>>

\* C11: the dither offsets never change; set_guide_stars and
\* process_guide_frame leave the acquisition results (PSF models and dither
\* banks) unchanged; after every step each dither bank is the rendering of
\* the model stored with it, fitted to the current exposure's image, at the
\* session offsets.
C11_DitherBanksImmutable ==
    [][ /\ xydither' = xydither
        /\ lastOp' \in {"set_guide_stars", "process_guide_frame"}
              => acquisition_results' = acquisition_results
        /\ DitherBanksCurrent' ]_vars

\* C11 witness: a guide frame was processed in the second exposure with a
\* dither bank published for every camera
W11_BanksAfterGuideFrame ==
    /\ lastOp = "process_guide_frame"
    /\ guide_stars # None
    /\ expid = Some(OtherHeader.EXPID)
    /\ DOMAIN acquisition_results[1] = Cameras
    /\ \A c \in Cameras : "dithered" \in DOMAIN acquisition_results[1][c]

\* C18: every camera entry of the acquisition results has a PSF model and
\* its dither bank, and no guide frame fails looking up a dither bank.
C18_EntriesHaveDitherBank ==
    /\ acquisition_results # None =>
          \A c \in DOMAIN acquisition_results[1] :
              {"gmm", "dithered"} \subseteq DOMAIN acquisition_results[1][c]
    /\ lastOp = "process_guide_frame" => ret # "KeyError"

\* C19: the guide frame counter is defined in every state; an acquisition
\* sets it to 0, a guide frame that returns True adds exactly 1, and every
\* other call leaves it unchanged.
C19_CounterCountsAcceptedFrames ==
    [][ /\ num_guide_frames # <<>>
        /\ lastOp' = "process_acquisition" => num_guide_frames' = Some(0)
        /\ (lastOp' = "process_guide_frame" /\ ret' = "True")
              => num_guide_frames' = Some(num_guide_frames[1] + 1)
        /\ (\/ lastOp' = "set_guide_stars"
            \/ lastOp' = "process_guide_frame" /\ ret' # "True")
              => num_guide_frames' = num_guide_frames ]_vars

-----------------------------------------------------------------------------
(* Properties of one call, stated on the logged argument. *)

\* a camera image that passes preprocessing: MJD-OBS from 58484 on, a
\* positive EXPTIME and raw data that setraw accepts
Preprocessable(image) ==
    /\ "MJD-OBS" \in DOMAIN image.header
    /\ image.header["MJD-OBS"] >= 58484
    /\ "EXPTIME" \in DOMAIN image.header
    /\ image.header["EXPTIME"] > 0
    /\ image.data.valid

\* the cameras of a payload whose image passes preprocessing
GoodCameras(data) == {c \in Cameras \cap DOMAIN data : Preprocessable(data[c])}

\* C4: a process_guide_frame that passes the sequencing checks completes
\* whatever fails on a camera, and fits every registered star of every
\* camera that has a PSF model and a good image in the frame.
C4_GuideFrameIsolatesFailures ==
    (/\ lastOp = "process_guide_frame"
     /\ acquisition_results # None
     /\ guide_stars # None)
    => /\ ret = "True"
       /\ \A c \in GoodCameras(call[1]) \cap DOMAIN guide_stars[1]
                      \cap DOMAIN acquisition_results[1] :
             "dithered" \in DOMAIN acquisition_results[1][c]
             => \A k \in 1..Len(guide_stars[1][c]) : <<c, k>> \in fitted

\* C16: preprocess_gfa returns False and leaves the camera processor as it
\* was when MJD-OBS is missing or below 58484, EXPTIME is missing or not
\* positive, or setraw refuses the raw data; otherwise it returns True with
\* gfa_mjd_obs and gfa_exptime from the header and the processor holding the
\* camera's frame with the dark current of the header's GCCDTEMP (10 when
\* missing) and EXPTIME subtracted once.
C16_PreprocessRejectsOrLoads ==
    [][ lastOp' = "preprocess_gfa" =>
          LET camera == call'[1][1]
              data == call'[1][2]
              hdr == data.header
          IN  IF Preprocessable(data)
              THEN /\ ret' = "True"
                   /\ gfa_mjd_obs' = Some(Some(hdr["MJD-OBS"]))
                   /\ gfa_exptime' = Some(Some(hdr["EXPTIME"]))
                   /\ GFA' = Some([name |-> camera, raw |-> data.data,
                                   dark |-> <<IF "GCCDTEMP" \in DOMAIN hdr
                                              THEN hdr["GCCDTEMP"] ELSE 10,
                                              hdr["EXPTIME"]>>])
              ELSE /\ ret' = "False"
                   /\ GFA' = GFA ]_vars

\* C16 witness: an image without GCCDTEMP was accepted after another camera's
\* frame had been loaded, and a bad image was then rejected
W16_RejectedAfterDefaultTemp ==
    /\ lastOp = "preprocess_gfa"
    /\ ret = "False"
    /\ GFA # <<>>
    /\ GFA[1].dark[1] = default_ccdtemp
    /\ GFA[1].name # call[1][1]
    /\ call[1][2].data.valid
    /\ "MJD-OBS" \in DOMAIN call[1][2].header

\* C17: the predicted photon rate registered for a star, the denominator of
\* its transparency flux / (rate * exposure time), is the single value
\* computed from the star's own magnitude.
C17_RateFromOwnMagnitude ==
    guide_stars # None =>
        \A c \in DOMAIN guide_stars[1] : \A k \in 1..Len(guide_stars[1][c]) :
            guide_stars[1][c][k].nelec_rate = <<nelec(guide_stars[1][c][k].rmag)>>

\* the cameras whose stars a guide frame can fit from the camera's own inputs:
\* a good image in the frame, registered stars and a dither bank
FitCameras(data) ==
    {c \in GoodCameras(data) \cap DOMAIN guide_stars[1]
                             \cap DOMAIN acquisition_results[1] :
        "dithered" \in DOMAIN acquisition_results[1][c]}

\* C12: the per-star results of a guide frame do not depend on the order of
\* the per-camera work or on the other cameras: the stars fitted are exactly
\* the registered stars of the cameras that have a good image in the frame
\* and a dither bank, each fitted from its own camera's data.
C12_FitsIndependentAcrossCameras ==
    (/\ lastOp = "process_guide_frame"
     /\ acquisition_results # None
     /\ guide_stars # None)
    => fitted = UNION { { <<c, k>> : k \in 1..Len(guide_stars[1][c]) } :
                        c \in FitCameras(call[1]) }

\* C14: when every camera of the acquisition results has registered stars, a
\* guide frame that passes the sequencing checks never fails on an undefined
\* array or a missing dither bank, and every fit it runs is of a star whose
\* own camera has a good image in the frame and a dither bank.
C14_FitsUseOwnCameraCutouts ==
    (/\ lastOp = "process_guide_frame"
     /\ acquisition_results # None
     /\ guide_stars # None
     /\ DOMAIN acquisition_results[1] \subseteq DOMAIN guide_stars[1])
    => /\ ret \notin {"NameError", "KeyError"}
       /\ \A f \in fitted : f[1] \in FitCameras(call[1])

\* the header of a guide frame names another exposure than the current one
HeaderMismatch(data) ==
    Some(data.header.NIGHT) # night \/ Some(data.header.EXPID) # expid

\* C20: only process_acquisition writes night and expid, and a guide frame
\* that passes the sequencing checks with a NIGHT or EXPID different from
\* them returns True and is counted.
C20_MismatchedFrameAccepted ==
    [][ /\ lastOp' # "process_acquisition" => (night' = night /\ expid' = expid)
        /\ (/\ lastOp' = "process_guide_frame"
            /\ acquisition_results # None
            /\ guide_stars # None
            /\ HeaderMismatch(call'[1]))
           => /\ ret' = "True"
              /\ num_guide_frames' = Some(num_guide_frames[1] + 1) ]_vars

\* C5: process_acquisition completes with the exposure reset, and the cameras
\* with an entry in its results are exactly those whose image is in the
\* payload, passes preprocessing and shows PSF-like objects; with one camera
\* missing and the others good there is one entry less than cameras.
C5_AcquisitionIsolatesCameraFailures ==
    lastOp = "process_acquisition" =>
        LET data == call[1]
            good == {c \in GoodCameras(data) : data[c].data.psfs}
        IN  /\ ret = "None"
            /\ guide_stars = None
            /\ num_guide_frames = Some(0)
            /\ DOMAIN acquisition_results[1] = good
            /\ (Cardinality(Cameras \ DOMAIN data) = 1 /\ good = Cameras \cap DOMAIN data)
                  => Cardinality(DOMAIN acquisition_results[1]) = NumCameras - 1

\* C5 witness: the first camera had no image, every later camera got its entry
W5_OneCameraMissing ==
    /\ lastOp = "process_acquisition"
    /\ Cameras \ DOMAIN call[1] = {guide_names[1]}
    /\ DOMAIN acquisition_results[1] = Cameras \ {guide_names[1]}

\* C6: every registered star's window is psf_pixels wide and high and lies
\* inside the frame.
C6_WindowsInsideFrame ==
    guide_stars # None =>
        \A c \in DOMAIN guide_stars[1] : \A k \in 1..Len(guide_stars[1][c]) :
            LET star == guide_stars[1][c][k]
            IN  /\ star.xslice[2] - star.xslice[1] = psf_pixels
                /\ star.yslice[2] - star.yslice[1] = psf_pixels
                /\ 0 <= star.xslice[1] /\ star.xslice[2] <= nx
                /\ 0 <= star.yslice[1] /\ star.yslice[2] <= ny

\* C6 witness: a star of the largest stamp size is registered with its window
\* against the right edge of the frame
W6_WindowAtEdge ==
    /\ guide_stars # None
    /\ psf_pixels = LargestStamp
    /\ \E c \in DOMAIN guide_stars[1] : \E k \in 1..Len(guide_stars[1][c]) :
          guide_stars[1][c][k].xslice[2] = nx

\* the pixel nearest to v quarter pixels, the even one of two equally near
NearestPixel(v) ==
    CHOOSE p \in -1..(nx + ny + 2) :
        LET d == IF v >= Pixel * p THEN v - Pixel * p ELSE Pixel * p - v
        IN  2 * d < Pixel \/ (2 * d = Pixel /\ p % 2 = 0)

\* the stamp of a catalog entry fits in the frame
WindowInside(entry) ==
    LET h == psf_pixels \div 2
        px == NearestPixel(entry.col - Half)
        py == NearestPixel(entry.row - Half)
    IN  px >= h /\ px + h <= nx - 1 /\ py >= h /\ py + h <= ny - 1

\* the usable entries of a catalog for camera c, in catalog order
Usable(catalog, c) ==
    SelectSeq(catalog, LAMBDA e : e.gfa_loc = c /\ e.mag > 0 /\ WindowInside(e))

\* the catalog entries the stars registered for camera c came from
RegisteredEntries(c) ==
    IF c \in DOMAIN guide_stars[1]
    THEN [k \in 1..Len(guide_stars[1][c]) |->
            Entry(c, guide_stars[1][c][k].x0 + Half, guide_stars[1][c][k].y0 + Half,
                  guide_stars[1][c][k].rmag)]
    ELSE <<>>

\* C7: with an acquisition in place, set_guide_stars registers exactly the
\* catalog stars on a guide camera with mag > 0 and a window inside the
\* frame, and returns True exactly when there is one.
C7_RegistersExactlyUsableStars ==
    (lastOp = "set_guide_stars" /\ acquisition_results # None) =>
        /\ DOMAIN guide_stars[1] \subseteq Cameras
        /\ \A c \in Cameras : RegisteredEntries(c) = Usable(call[1], c)
        /\ (ret = "True") = (\E c \in Cameras : Usable(call[1], c) # <<>>)

\* C7 witness: registration succeeded on a catalog with a border star
W7_BorderStarExcluded ==
    /\ lastOp = "set_guide_stars"
    /\ acquisition_results # None
    /\ ret = "True"
    /\ \E i \in 1..Len(call[1]) :
          /\ call[1][i].gfa_loc \in Cameras
          /\ call[1][i].mag > 0
          /\ ~WindowInside(call[1][i])

\* C15: every registered star has x0 = col - 0.5 and y0 = row - 0.5 of its
\* catalog entry, a window of half-width psf_pixels // 2 around the pixel
\* nearest to (x0, y0), and a fiber offset equal to (x0, y0) minus that
\* pixel, within half a pixel on each axis.
C15_PixelConventionOnce ==
    (lastOp = "set_guide_stars" /\ acquisition_results # None) =>
        \A c \in DOMAIN guide_stars[1] :
            /\ Len(guide_stars[1][c]) = Len(Usable(call[1], c))
            /\ \A k \in 1..Len(guide_stars[1][c]) :
                  LET star == guide_stars[1][c][k]
                      entry == Usable(call[1], c)[k]
                      h == psf_pixels \div 2
                      px == NearestPixel(star.x0)
                      py == NearestPixel(star.y0)
                  IN  /\ star.x0 = entry.col - Half
                      /\ star.y0 = entry.row - Half
                      /\ star.xslice = <<px - h, px + h + 1>>
                      /\ star.yslice = <<py - h, py + h + 1>>
                      /\ star.fiber_dx = star.x0 - Pixel * px
                      /\ star.fiber_dy = star.y0 - Pixel * py
                      /\ -Half <= star.fiber_dx /\ star.fiber_dx <= Half
                      /\ -Half <= star.fiber_dy /\ star.fiber_dy <= Half

\* C15 witness: a star whose x0 lies half-way between two pixels is
\* registered, rounded down to the even pixel
W15_HalfPixelOffsets ==
    /\ lastOp = "set_guide_stars"
    /\ ret = "True"
    /\ \E c \in DOMAIN guide_stars[1] : \E k \in 1..Len(guide_stars[1][c]) :
          /\ guide_stars[1][c][k].fiber_dx = Half
          /\ guide_stars[1][c][k].fiber_dy = 0

====
